---- MODULE Spec2Model ----
(***************************************************************************)
(* Gobx stats collector (stats-collection/app): the RunStats validator,    *)
(* the ingest handler and the runs table of main.py, the loader            *)
(* _load_samples, and the aggregation functions of dashboard.py.           *)
(*                                                                         *)
(* Representation.  A Python str is a tuple of one-character strings, so   *)
(* that len(), strip(), lower(), slicing and the regular expressions are   *)
(* computed on the characters.  Optional[T] is a tuple of length <= 1:     *)
(* None is << >> and a present value x is << x >>.  A JSON request body is *)
(* a function from the keys it holds to their values.  Float fields hold   *)
(* integer-valued numbers; the rates are even, so the halving done by      *)
(* statistics.median is exact.  totalCount is held in units of 10^6        *)
(* because 10^15 is beyond TLC's integers.  A receipt instant is an        *)
(* integer tick of the UTC clock.                                          *)
(***************************************************************************)
EXTENDS Integers, Sequences, FiniteSets, TLC

VARIABLES now, runs, workers, reader, vpayload, vresult, prows, samples, outputs

vars == <<now, runs, workers, reader, vpayload, vresult, prows, samples, outputs>>

(***************************************************************************)
(* Python str helpers                                                      *)
(***************************************************************************)
Rep(c, n) == [i \in 1..n |-> c]

None == << >>

Some(x) == << x >>

HEX_LOWER == {"0", "1", "2", "3", "4", "5", "6", "7", "8", "9", "a", "b", "c", "d", "e", "f"}

HEX_UPPER == {"A", "B", "C", "D", "E", "F"}

WHITESPACE == {" ", "\t", "\n", "\r"}

RECURSIVE lstrip(_)
lstrip(s) ==
    IF s # << >> /\ Head(s) \in WHITESPACE THEN lstrip(Tail(s)) ELSE s

RECURSIVE rstrip(_)
rstrip(s) ==
    IF s # << >> /\ s[Len(s)] \in WHITESPACE
    THEN rstrip(SubSeq(s, 1, Len(s) - 1))
    ELSE s

strip(s) == rstrip(lstrip(s))

lower_char(c) ==
    CASE c = "A" -> "a"
      [] c = "B" -> "b"
      [] c = "C" -> "c"
      [] c = "D" -> "d"
      [] c = "E" -> "e"
      [] c = "F" -> "f"
      [] c = "G" -> "g"
      [] OTHER -> c

lower(s) == [i \in 1..Len(s) |-> lower_char(s[i])]

(***************************************************************************)
(* main.py:27-28, the two patterns.  re.match with ^...$ accepts one       *)
(* trailing "\n" after the counted characters.                             *)
(***************************************************************************)
HexBody(s) ==
    IF s # << >> /\ s[Len(s)] = "\n" THEN SubSeq(s, 1, Len(s) - 1) ELSE s

DEVICE_ID_LEN == 64

RUN_ID_MIN_LEN == 16

RUN_ID_MAX_LEN == 64

_HEX_64(s) ==
    LET body == HexBody(s)
    IN  /\ Len(body) = DEVICE_ID_LEN
        /\ \A i \in 1..Len(body) : body[i] \in HEX_LOWER \cup HEX_UPPER

_RUN_ID(s) ==
    LET body == HexBody(s)
    IN  /\ Len(body) >= RUN_ID_MIN_LEN
        /\ Len(body) <= RUN_ID_MAX_LEN
        /\ \A i \in 1..Len(body) : body[i] \in HEX_LOWER \cup HEX_UPPER \cup {"-"}

(***************************************************************************)
(* RunStats, main.py:31-57: the field table.                               *)
(***************************************************************************)
STR_MAX_LEN == 128

APP_VERSION_MAX_LEN == 64

BATCH_MAX == 65536

INFLIGHT_MAX == 1024

ELAPSED_MAX == 31536000

TOTAL_COUNT_MAX == 1000000000

RATE_MAX == 1000000000

AVG_MAX == 1000

RequiredFields ==
    {"schemaVersion", "runId", "deviceId", "backend", "osVersion", "appVersion",
     "autoBatch", "autoInflight", "elapsedSec", "totalCount", "totalRate",
     "cpuRate", "gpuRate", "cpuAvg", "gpuAvg"}

OptionalFields ==
    {"hwModel", "gpuName", "gpuBackend", "batch", "inflight", "batchMin",
     "batchMax", "inflightMin", "inflightMax"}

SchemaFields == RequiredFields \cup OptionalFields

GpuBackends == {"mps", "metal"}

Backends == {"cpu", "mps", "all"}

\* One error of a pydantic ValidationError: the location and the error type.
Err(loc, type) == <<loc, type>>

Missing(p, k) == IF k \in DOMAIN p THEN {} ELSE {Err(k, "missing")}

\* Field(..., ge=lo, le=hi) on a required number.
NumErrors(p, k, lo, hi) ==
    IF k \notin DOMAIN p THEN {Err(k, "missing")}
    ELSE IF p[k] < lo THEN {Err(k, "greater_than_equal")}
    ELSE IF p[k] > hi THEN {Err(k, "less_than_equal")}
    ELSE {}

\* Optional[int] = Field(default=None, ge=lo, le=hi).
OptIntErrors(p, k, lo, hi) ==
    IF k \notin DOMAIN p \/ p[k] = None THEN {}
    ELSE IF p[k][1] < lo THEN {Err(k, "greater_than_equal")}
    ELSE IF p[k][1] > hi THEN {Err(k, "less_than_equal")}
    ELSE {}

\* Optional[str] = Field(default=None, max_length=n).
OptStrErrors(p, k, n) ==
    IF k \notin DOMAIN p \/ p[k] = None THEN {}
    ELSE IF Len(p[k][1]) > n THEN {Err(k, "string_too_long")}
    ELSE {}

\* str = Field(..., max_length=n).
StrErrors(p, k, n) ==
    IF k \notin DOMAIN p THEN {Err(k, "missing")}
    ELSE IF Len(p[k]) > n THEN {Err(k, "string_too_long")}
    ELSE {}

\* main.py:35 and 59-65: the length bounds, then the field validator.
_validate_run_id(p) ==
    IF "runId" \notin DOMAIN p THEN {Err("runId", "missing")}
    ELSE IF Len(p.runId) < RUN_ID_MIN_LEN THEN {Err("runId", "string_too_short")}
    ELSE IF Len(p.runId) > RUN_ID_MAX_LEN THEN {Err("runId", "string_too_long")}
    ELSE IF ~_RUN_ID(strip(p.runId))
         THEN {Err("runId", "runId must be a uuid-like string")}
    ELSE {}

\* main.py:36 and 67-73.
_validate_device_id(p) ==
    IF "deviceId" \notin DOMAIN p THEN {Err("deviceId", "missing")}
    ELSE IF Len(p.deviceId) < DEVICE_ID_LEN THEN {Err("deviceId", "string_too_short")}
    ELSE IF Len(p.deviceId) > DEVICE_ID_LEN THEN {Err("deviceId", "string_too_long")}
    ELSE IF ~_HEX_64(strip(p.deviceId))
         THEN {Err("deviceId", "deviceId must be a 64-char hex string")}
    ELSE {}

\* model_config = ConfigDict(extra="forbid"), main.py:32.
ExtraErrors(p) == {Err(k, "extra_forbidden") : k \in DOMAIN p \ SchemaFields}

\* main.py:34-57: every field is validated and every failure is collected.
FieldErrors(p) ==
    ExtraErrors(p)
    \cup (IF "schemaVersion" \notin DOMAIN p THEN {Err("schemaVersion", "missing")}
          ELSE IF p.schemaVersion < 1 THEN {Err("schemaVersion", "greater_than_equal")}
          ELSE {})
    \cup _validate_run_id(p)
    \cup _validate_device_id(p)
    \cup OptStrErrors(p, "hwModel", STR_MAX_LEN)
    \cup OptStrErrors(p, "gpuName", STR_MAX_LEN)
    \cup (IF "gpuBackend" \notin DOMAIN p \/ p.gpuBackend = None THEN {}
          ELSE IF p.gpuBackend[1] \notin GpuBackends THEN {Err("gpuBackend", "literal_error")}
          ELSE {})
    \cup (IF "backend" \notin DOMAIN p THEN {Err("backend", "missing")}
          ELSE IF p.backend \notin Backends THEN {Err("backend", "literal_error")}
          ELSE {})
    \cup StrErrors(p, "osVersion", STR_MAX_LEN)
    \cup StrErrors(p, "appVersion", APP_VERSION_MAX_LEN)
    \cup OptIntErrors(p, "batch", 1, BATCH_MAX)
    \cup OptIntErrors(p, "inflight", 1, INFLIGHT_MAX)
    \cup OptIntErrors(p, "batchMin", 1, BATCH_MAX)
    \cup OptIntErrors(p, "batchMax", 1, BATCH_MAX)
    \cup OptIntErrors(p, "inflightMin", 1, INFLIGHT_MAX)
    \cup OptIntErrors(p, "inflightMax", 1, INFLIGHT_MAX)
    \cup Missing(p, "autoBatch")
    \cup Missing(p, "autoInflight")
    \cup (IF "elapsedSec" \notin DOMAIN p THEN {Err("elapsedSec", "missing")}
          ELSE IF ~(p.elapsedSec > 0) THEN {Err("elapsedSec", "greater_than")}
          ELSE IF p.elapsedSec > ELAPSED_MAX THEN {Err("elapsedSec", "less_than_equal")}
          ELSE {})
    \cup NumErrors(p, "totalCount", 0, TOTAL_COUNT_MAX)
    \cup NumErrors(p, "totalRate", 0, RATE_MAX)
    \cup NumErrors(p, "cpuRate", 0, RATE_MAX)
    \cup NumErrors(p, "gpuRate", 0, RATE_MAX)
    \cup NumErrors(p, "cpuAvg", 0 - AVG_MAX, AVG_MAX)
    \cup NumErrors(p, "gpuAvg", 0 - AVG_MAX, AVG_MAX)

\* The RunStats instance built from a body whose fields all passed: absent
\* optional fields take their default None, runId is stripped, deviceId is
\* stripped and lowercased.
Default(p, k) == IF k \in DOMAIN p THEN p[k] ELSE None

Instance(p) ==
    [schemaVersion |-> p.schemaVersion,
     runId |-> strip(p.runId),
     deviceId |-> lower(strip(p.deviceId)),
     hwModel |-> Default(p, "hwModel"),
     gpuName |-> Default(p, "gpuName"),
     gpuBackend |-> Default(p, "gpuBackend"),
     backend |-> p.backend,
     osVersion |-> p.osVersion,
     appVersion |-> p.appVersion,
     batch |-> Default(p, "batch"),
     inflight |-> Default(p, "inflight"),
     batchMin |-> Default(p, "batchMin"),
     batchMax |-> Default(p, "batchMax"),
     inflightMin |-> Default(p, "inflightMin"),
     inflightMax |-> Default(p, "inflightMax"),
     autoBatch |-> p.autoBatch,
     autoInflight |-> p.autoInflight,
     elapsedSec |-> p.elapsedSec,
     totalCount |-> p.totalCount,
     totalRate |-> p.totalRate,
     cpuRate |-> p.cpuRate,
     gpuRate |-> p.gpuRate,
     cpuAvg |-> p.cpuAvg,
     gpuAvg |-> p.gpuAvg]

\* _validate_ranges with the inflight bounds compared before the batch bounds.
_validate_ranges_InflightFirst(self) ==
    IF self.inflightMin # None /\ self.inflightMax # None
       /\ self.inflightMin[1] > self.inflightMax[1]
    THEN "inflightMin must be <= inflightMax"
    ELSE IF self.batchMin # None /\ self.batchMax # None /\ self.batchMin[1] > self.batchMax[1]
    THEN "batchMin must be <= batchMax"
    ELSE "ok"

\* main.py:75-91: the first failing rule raises; "ok" when none does.
_validate_ranges(self) ==
    IF self.batchMin # None /\ self.batchMax # None /\ self.batchMin[1] > self.batchMax[1]
    THEN "batchMin must be <= batchMax"
    ELSE IF self.inflightMin # None /\ self.inflightMax # None
            /\ self.inflightMin[1] > self.inflightMax[1]
    THEN "inflightMin must be <= inflightMax"
    ELSE IF self.batch # None /\ self.batchMin # None /\ self.batch[1] < self.batchMin[1]
    THEN "batch must be >= batchMin"
    ELSE IF self.batch # None /\ self.batchMax # None /\ self.batch[1] > self.batchMax[1]
    THEN "batch must be <= batchMax"
    ELSE IF self.inflight # None /\ self.inflightMin # None
            /\ self.inflight[1] < self.inflightMin[1]
    THEN "inflight must be >= inflightMin"
    ELSE IF self.inflight # None /\ self.inflightMax # None
            /\ self.inflight[1] > self.inflightMax[1]
    THEN "inflight must be <= inflightMax"
    ELSE "ok"

\* RunStats without its model validator.
RunStats_NoModelValidator(p) ==
    IF FieldErrors(p) # {}
    THEN [ok |-> FALSE, errors |-> FieldErrors(p), value |-> None]
    ELSE [ok |-> TRUE, errors |-> {}, value |-> Some(Instance(p))]

\* RunStats(**body): the field pass, and only when it found nothing the
\* mode="after" model validator.  value is Some(instance) on success.
RunStats(p) ==
    LET field_errors == FieldErrors(p)
    IN  IF field_errors # {}
        THEN [ok |-> FALSE, errors |-> field_errors, value |-> None]
        ELSE LET self == Instance(p)
                 raised == _validate_ranges(self)
             IN  IF raised # "ok"
                 THEN [ok |-> FALSE, errors |-> {Err("", raised)}, value |-> None]
                 ELSE [ok |-> TRUE, errors |-> {}, value |-> Some(self)]

(***************************************************************************)
(* dashboard.py: RunSample, DashboardSummary and the aggregation functions *)
(***************************************************************************)
\* "unknown"
UNKNOWN == <<"u", "n", "k", "n", "o", "w", "n">>

\* datetime.isoformat() of a UTC instant and datetime.fromisoformat(): the
\* text is fixed-width, so texts compare as their instants do.
isoformat(t) == [iso |-> t]

fromisoformat(text) == text.iso

\* An insertion that puts an item before the placed items of equal key.
InsertByKey_BeforeEqual(placed, x) ==
    LET k == Cardinality({i \in 1..Len(placed) : placed[i][1] < x[1]})
    IN  SubSeq(placed, 1, k) \o <<x>> \o SubSeq(placed, k + 1, Len(placed))

\* list.sort(key=...) / sorted(): a stable sort of <<key, item>> pairs, an
\* item goes after the items already placed whose key is <= its own.
InsertByKey(placed, x) ==
    LET k == Cardinality({i \in 1..Len(placed) : placed[i][1] <= x[1]})
    IN  SubSeq(placed, 1, k) \o <<x>> \o SubSeq(placed, k + 1, Len(placed))

RECURSIVE SortByKey(_)
SortByKey(pairs) ==
    IF pairs = << >> THEN << >>
    ELSE InsertByKey(SortByKey(SubSeq(pairs, 1, Len(pairs) - 1)), pairs[Len(pairs)])

Items(pairs) == [i \in 1..Len(pairs) |-> pairs[i][2]]

sorted(data) == Items(SortByKey([i \in 1..Len(data) |-> <<data[i], data[i]>>]))

\* statistics.median: the middle of the sorted data, the mean of the two
\* middle values when there is an even number of them.
median(data) ==
    LET d == sorted(data)
        n == Len(d)
    IN  IF n % 2 = 1 THEN d[n \div 2 + 1]
        ELSE (d[n \div 2] + d[n \div 2 + 1]) \div 2

\* Stands for the literal 50 of build_summary (samples[-50:]), scaled down so
\* that sequences longer than the window can be enumerated.
RECENT_WINDOW == 3

\* build_summary with the median taken over every sample.
build_summary_NoWindow(ss) ==
    IF ss = << >>
    THEN [estimated_rate |-> 0, sample_count |-> 0, total_runs |-> 0,
          unique_versions |-> 0, last_received_at |-> None]
    ELSE [estimated_rate |-> median([i \in 1..Len(ss) |-> ss[i].total_rate]),
          sample_count |-> Len(ss),
          total_runs |-> Len(ss),
          unique_versions |->
              Cardinality({ss[i].app_version : i \in {j \in 1..Len(ss) : ss[j].app_version # << >>}}),
          last_received_at |-> Some(ss[Len(ss)].received_at)]

\* build_summary with the versions counted in the recent window only.
build_summary_WindowVersions(ss) ==
    IF ss = << >>
    THEN [estimated_rate |-> 0, sample_count |-> 0, total_runs |-> 0,
          unique_versions |-> 0, last_received_at |-> None]
    ELSE LET recent == IF Len(ss) > RECENT_WINDOW
                       THEN SubSeq(ss, Len(ss) - RECENT_WINDOW + 1, Len(ss))
                       ELSE ss
         IN  [estimated_rate |-> median([i \in 1..Len(recent) |-> recent[i].total_rate]),
              sample_count |-> Len(recent),
              total_runs |-> Len(ss),
              unique_versions |->
                  Cardinality({recent[i].app_version :
                                  i \in {j \in 1..Len(recent) : recent[j].app_version # << >>}}),
              last_received_at |-> Some(ss[Len(ss)].received_at)]

\* dashboard.py:55-75
build_summary(ss) ==
    IF ss = << >>
    THEN [estimated_rate |-> 0, sample_count |-> 0, total_runs |-> 0,
          unique_versions |-> 0, last_received_at |-> None]
    ELSE LET recent == IF Len(ss) > RECENT_WINDOW
                       THEN SubSeq(ss, Len(ss) - RECENT_WINDOW + 1, Len(ss))
                       ELSE ss
             rates == [i \in 1..Len(recent) |-> recent[i].total_rate]
             versions == {ss[i].app_version : i \in {j \in 1..Len(ss) : ss[j].app_version # << >>}}
         IN  [estimated_rate |-> median(rates),
              sample_count |-> Len(recent),
              total_runs |-> Len(ss),
              unique_versions |-> Cardinality(versions),
              last_received_at |-> Some(ss[Len(ss)].received_at)]

\* dashboard.py:78-88: the placeholder image, by what is drawn on it.
_render_placeholder(title, message) ==
    [kind |-> "placeholder", title |-> title, message |-> message]

\* dashboard.py:91-120: the card shows the rate and the caption's count (the
\* text formatting of _format_rate is not modelled).
render_total_rate_card(summary) ==
    IF summary.sample_count = 0
    THEN _render_placeholder("Estimated total rate", "No data yet")
    ELSE [kind |-> "card", rate |-> summary.estimated_rate,
          caption_count |-> summary.sample_count]

\* dashboard.py:123-130: last_version starts as None, which no str equals.
RECURSIVE _app_version_boundaries_from(_, _, _)
_app_version_boundaries_from(ss, i, last_version) ==
    IF i > Len(ss) THEN << >>
    ELSE IF Some(ss[i].app_version) # last_version
    THEN <<[at |-> ss[i].received_at, version |-> ss[i].app_version]>>
         \o _app_version_boundaries_from(ss, i + 1, Some(ss[i].app_version))
    ELSE _app_version_boundaries_from(ss, i + 1, last_version)

\* _app_version_boundaries marking only the first sample of each version.
_app_version_boundaries_FirstSeen(ss) ==
    LET firsts == {i \in 1..Len(ss) :
                      \A j \in 1..(i - 1) : ss[j].app_version # ss[i].app_version}
        f[k \in 0..Cardinality(firsts)] ==
            IF k = 0 THEN << >>
            ELSE LET i == CHOOSE x \in firsts : Cardinality({y \in firsts : y < x}) = k - 1
                 IN  Append(f[k - 1], [at |-> ss[i].received_at, version |-> ss[i].app_version])
    IN  f[Cardinality(firsts)]

_app_version_boundaries(ss) == _app_version_boundaries_from(ss, 1, None)

LABELLED_BOUNDARIES == 4

LABEL_CHARS == 10

Prefix(s, n) == SubSeq(s, 1, IF Len(s) < n THEN Len(s) ELSE n)

Suffix(s, n) == SubSeq(s, IF Len(s) > n THEN Len(s) - n + 1 ELSE 1, Len(s))

\* dashboard.py:133-165: the line, the marker of the last point, one dashed
\* line per boundary and a label on the last four.
render_performance_over_time(ss) ==
    IF ss = << >>
    THEN _render_placeholder("Performance over time", "No data yet")
    ELSE LET boundaries == _app_version_boundaries(ss)
         IN  [kind |-> "chart",
              times |-> [i \in 1..Len(ss) |-> ss[i].received_at],
              rates |-> [i \in 1..Len(ss) |-> ss[i].total_rate],
              lines |-> [i \in 1..Len(boundaries) |-> boundaries[i].at],
              labels |-> [i \in 1..Len(Suffix(boundaries, LABELLED_BOUNDARIES)) |->
                            Prefix(Suffix(boundaries, LABELLED_BOUNDARIES)[i].version,
                                   LABEL_CHARS)]]

\* dashboard.py:168-185.  buckets: version -> its rates in input order;
\* ordered_versions: the non-empty versions in order of first occurrence.
Buckets(ss) ==
    [v \in {ss[i].app_version : i \in {j \in 1..Len(ss) : ss[j].app_version # << >>}} |->
        LET idx == {i \in 1..Len(ss) : ss[i].app_version = v}
            f[k \in 0..Cardinality(idx)] ==
                IF k = 0 THEN << >>
                ELSE Append(f[k - 1],
                            ss[CHOOSE i \in idx : Cardinality({j \in idx : j < i}) = k - 1].total_rate)
        IN  f[Cardinality(idx)]]

RECURSIVE OrderedVersions(_, _, _)
OrderedVersions(ss, i, seen) ==
    IF i > Len(ss) THEN << >>
    ELSE IF ss[i].app_version # << >> /\ ss[i].app_version \notin seen
    THEN <<ss[i].app_version>> \o OrderedVersions(ss, i + 1, seen \cup {ss[i].app_version})
    ELSE OrderedVersions(ss, i + 1, seen)

\* _summarize_by_version listing the versions latest-introduced first.
_summarize_by_version_NewestFirst(ss) ==
    LET buckets == Buckets(ss)
        ordered_versions == OrderedVersions(ss, 1, {})
        n == Len(ordered_versions)
    IN  [i \in 1..n |-> [version |-> ordered_versions[n + 1 - i],
                         median |-> median(buckets[ordered_versions[n + 1 - i]])]]

_summarize_by_version(ss) ==
    LET buckets == Buckets(ss)
        ordered_versions == OrderedVersions(ss, 1, {})
        kept == SelectSeq(ordered_versions,
                          LAMBDA v : v \in DOMAIN buckets /\ buckets[v] # << >>)
    IN  [i \in 1..Len(kept) |-> [version |-> kept[i], median |-> median(buckets[kept[i]])]]

LAST_VERSIONS == 12

\* render_performance_by_version with one placeholder for both empty cases.
render_performance_by_version_OnePlaceholder(ss) ==
    IF ss = << >> \/ _summarize_by_version(ss) = << >>
    THEN _render_placeholder("Performance by app version", "No data yet")
    ELSE LET trimmed == Suffix(_summarize_by_version(ss), LAST_VERSIONS)
         IN  [kind |-> "chart",
              bars |-> [i \in 1..Len(trimmed) |-> trimmed[i].median],
              ticks |-> [i \in 1..Len(trimmed) |-> Prefix(trimmed[i].version, LABEL_CHARS)]]

\* dashboard.py:188-210
render_performance_by_version(ss) ==
    IF ss = << >>
    THEN _render_placeholder("Performance by app version", "No data yet")
    ELSE LET summary == _summarize_by_version(ss)
             trimmed == Suffix(summary, LAST_VERSIONS)
         IN  IF summary = << >>
             THEN _render_placeholder("Performance by app version", "No version data yet")
             ELSE [kind |-> "chart",
                   bars |-> [i \in 1..Len(trimmed) |-> trimmed[i].median],
                   ticks |-> [i \in 1..Len(trimmed) |-> Prefix(trimmed[i].version, LABEL_CHARS)]]

\* dashboard.py:213-219
render_all_assets(ss) ==
    [total_rate |-> render_total_rate_card(build_summary(ss)),
     perf_over_time |-> render_performance_over_time(ss),
     perf_by_version |-> render_performance_by_version(ss)]

\* The sample built without the fallback: the stored version is kept as is.
RunSample_KeepEmpty(row) ==
    [received_at |-> fromisoformat(row.received_at),
     app_version |-> row.app_version,
     total_rate |-> row.total_rate,
     total_count |-> row.total_count,
     elapsed_sec |-> row.elapsed_sec]

\* dashboard.py:222-235.  A row is the tuple the SELECT returns, held with
\* its column names.
RunSample(row) ==
    [received_at |-> fromisoformat(row.received_at),
     app_version |-> IF row.app_version = << >> THEN UNKNOWN ELSE row.app_version,
     total_rate |-> row.total_rate,
     total_count |-> row.total_count,
     elapsed_sec |-> row.elapsed_sec]

\* parse_samples without its final sort.
parse_samples_Unsorted(rows) == [i \in 1..Len(rows) |-> RunSample(rows[i])]

parse_samples(rows) ==
    Items(SortByKey([i \in 1..Len(rows) |->
                        <<RunSample(rows[i]).received_at, RunSample(rows[i])>>]))

(***************************************************************************)
(* Request bodies the clients send                                         *)
(***************************************************************************)
With(p, k, v) == [x \in DOMAIN p \cup {k} |-> IF x = k THEN v ELSE p[x]]

Without(p, k) == [x \in DOMAIN p \ {k} |-> p[x]]

V1 == <<"v", "1">>

V2 == <<"v", "2">>

V3 == <<"v", "3">>

BaseBody ==
    [schemaVersion |-> 1,
     runId |-> Rep("a", 16),
     deviceId |-> Rep("a", 64),
     backend |-> "cpu",
     osVersion |-> <<"1", "4">>,
     appVersion |-> V1,
     autoBatch |-> FALSE,
     autoInflight |-> FALSE,
     elapsedSec |-> 10,
     totalCount |-> 1,
     totalRate |-> 100,
     cpuRate |-> 100,
     gpuRate |-> 0,
     cpuAvg |-> 0,
     gpuAvg |-> 0]

\* Admissible bodies: a run whose ids need canonicalizing, and a run that
\* reports an empty appVersion.
GoodBodies ==
    {With(With(BaseBody, "deviceId", Rep("A", 64)), "runId", <<" ">> \o Rep("b", 16)),
     With(With(BaseBody, "appVersion", << >>), "totalRate", 200)}

\* Inadmissible bodies: an unknown key, a field out of range, and a violated
\* cross-field rule.
BadBodies ==
    {With(BaseBody, "debug", TRUE),
     With(BaseBody, "schemaVersion", 0),
     With(With(BaseBody, "batchMin", Some(2)), "batchMax", Some(1))}

ClientBodies == GoodBodies \cup BadBodies

(***************************************************************************)
(* main.py: the runs table, ingest, _load_samples and stats_dashboard      *)
(***************************************************************************)
\* FastAPI runs the sync handlers on a thread pool: two ingest requests can
\* be in flight at once, next to one dashboard request.
Workers == {"w1", "w2"}

\* Stands for the default limit 5000 of _load_samples, scaled down so that a
\* table larger than the limit can be reached.
DEFAULT_LIMIT == 2

\* The table is grown to one row past the limit.
MaxRuns == DEFAULT_LIMIT + 1

Idle == [pc |-> "idle", body |-> None, payload |-> None, received_at |-> None]

ReaderIdle ==
    [pc |-> "idle", begun |-> 0, seen |-> 0, samples |-> << >>, summary |-> None]

InFlight == {w \in Workers : workers[w].pc \in {"stamped", "inserted"}}

\* main.py:146-189, the row the INSERT writes; id is the AUTOINCREMENT key.
InsertRow(id, received_at, payload) ==
    [id |-> id,
     received_at |-> received_at,
     device_id |-> payload.deviceId,
     hw_model |-> payload.hwModel,
     gpu_name |-> payload.gpuName,
     gpu_backend |-> payload.gpuBackend,
     backend |-> payload.backend,
     os_version |-> payload.osVersion,
     app_version |-> payload.appVersion,
     batch |-> payload.batch,
     inflight |-> payload.inflight,
     elapsed_sec |-> payload.elapsedSec,
     total_count |-> payload.totalCount,
     total_rate |-> payload.totalRate,
     cpu_rate |-> payload.cpuRate,
     gpu_rate |-> payload.gpuRate,
     cpu_avg |-> payload.cpuAvg,
     gpu_avg |-> payload.gpuAvg,
     payload_json |-> payload]

\* POST /ingest, main.py:142-144: FastAPI builds RunStats from the body and
\* answers 422 without calling the handler when that fails; else the handler
\* starts and reads the clock.
ingest_receive(w, body) ==
    /\ workers[w].pc = "idle"
    /\ Len(runs) + Cardinality(InFlight) < MaxRuns
    /\ LET payload == RunStats(body)
       IN  workers' = [workers EXCEPT ![w] =
              IF payload.ok
              THEN [pc |-> "stamped", body |-> Some(body),
                    payload |-> payload.value,
                    received_at |-> Some(isoformat(now))]
              ELSE [pc |-> "rejected", body |-> Some(body),
                    payload |-> None, received_at |-> None]]
    /\ UNCHANGED <<now, runs, reader, vpayload, vresult, prows, samples, outputs>>

\* The 422 response leaves.
ingest_reject(w) ==
    /\ workers[w].pc = "rejected"
    /\ workers' = [workers EXCEPT ![w] = Idle]
    /\ UNCHANGED <<now, runs, reader, vpayload, vresult, prows, samples, outputs>>

\* main.py:145-189: conn.execute(INSERT) opens the write transaction; SQLite
\* admits one writer, the other waits.  The row is not visible to other
\* connections yet.
ingest_insert(w) ==
    /\ workers[w].pc = "stamped"
    /\ \A o \in Workers : workers[o].pc # "inserted"
    /\ workers' = [workers EXCEPT ![w].pc = "inserted"]
    /\ UNCHANGED <<now, runs, reader, vpayload, vresult, prows, samples, outputs>>

\* main.py:190-192: conn.commit() makes the row part of the table, then the
\* handler returns {"ok": True}.
ingest_commit(w) ==
    /\ workers[w].pc = "inserted"
    /\ runs' = Append(runs, InsertRow(Len(runs) + 1, workers[w].received_at[1],
                                      workers[w].payload[1]))
    /\ workers' = [workers EXCEPT ![w] = Idle]
    /\ UNCHANGED <<now, reader, vpayload, vresult, prows, samples, outputs>>

\* The UTC clock moves on.  Only the order of the receipt instants matters,
\* so the clock is followed for one tick per request stamped so far.
Tick ==
    /\ now < Len(runs) + Cardinality(InFlight)
    /\ now' = now + 1
    /\ UNCHANGED <<runs, workers, reader, vpayload, vresult, prows, samples, outputs>>

\* main.py:197-205: SELECT ... ORDER BY received_at DESC LIMIT ?, run on the
\* committed table.  SQL leaves the order of rows with equal received_at
\* open: ties come in rowid order or in reverse rowid order.
SelectBefore(a, b, ties) ==
    \/ fromisoformat(a.received_at) > fromisoformat(b.received_at)
    \/ /\ a.received_at = b.received_at
       /\ IF ties = "rowid" THEN a.id < b.id ELSE a.id > b.id

SelectRecent(table, limit, ties) ==
    LET ordered == SortSeq(table, LAMBDA a, b : SelectBefore(a, b, ties))
        fetched == SubSeq(ordered, 1, IF Len(ordered) < limit THEN Len(ordered) ELSE limit)
    IN  [i \in 1..Len(fetched) |->
            [received_at |-> fetched[i].received_at,
             app_version |-> fetched[i].app_version,
             total_rate |-> fetched[i].total_rate,
             total_count |-> fetched[i].total_count,
             elapsed_sec |-> fetched[i].elapsed_sec]]

\* main.py:195-207
_load_samples(table, limit, ties) == parse_samples(SelectRecent(table, limit, ties))

\* GET /stats, main.py:210-212 and 196: the request starts and connects.
\* begun records how many rows were committed by then.
stats_dashboard_connect ==
    /\ reader.pc = "idle"
    /\ reader' = [reader EXCEPT !.pc = "connected", !.begun = Len(runs)]
    /\ UNCHANGED <<now, runs, workers, vpayload, vresult, prows, samples, outputs>>

\* main.py:197-213: the SELECT reads one snapshot of the committed table,
\* then parse_samples and build_summary run on what it returned.  seen
\* records how many rows were committed when the SELECT ran.
stats_dashboard_load(ties) ==
    /\ reader.pc = "connected"
    /\ LET loaded == _load_samples(runs, DEFAULT_LIMIT, ties)
       IN  reader' = [reader EXCEPT
              !.pc = "done",
              !.seen = Len(runs),
              !.samples = loaded,
              !.summary = Some(build_summary(loaded))]
    /\ UNCHANGED <<now, runs, workers, vpayload, vresult, prows, samples, outputs>>

\* main.py:283: the page is returned.
stats_dashboard_return ==
    /\ reader.pc = "done"
    /\ reader' = ReaderIdle
    /\ UNCHANGED <<now, runs, workers, vpayload, vresult, prows, samples, outputs>>

Init ==
    /\ now = 0
    /\ runs = << >>
    /\ workers = [w \in Workers |-> Idle]
    /\ reader = ReaderIdle
    /\ vpayload = None
    /\ vresult = None
    /\ prows = << >>
    /\ samples = << >>
    /\ outputs = None

\* Requests arrive one after another on one thread, next to a dashboard
\* request.
Next ==
    \/ \E body \in ClientBodies : ingest_receive("w1", body)
    \/ ingest_reject("w1")
    \/ ingest_insert("w1")
    \/ ingest_commit("w1")
    \/ Tick
    \/ stats_dashboard_connect
    \/ \E ties \in {"rowid", "reverse"} : stats_dashboard_load(ties)
    \/ stats_dashboard_return

Spec == Init /\ [][Next]_vars

\* Admissible requests arrive on both threads at once, next to a dashboard
\* request.
NextConcurrent ==
    \/ \E w \in Workers, body \in GoodBodies : ingest_receive(w, body)
    \/ \E w \in Workers : ingest_insert(w)
    \/ \E w \in Workers : ingest_commit(w)
    \/ Tick
    \/ stats_dashboard_connect
    \/ \E ties \in {"rowid", "reverse"} : stats_dashboard_load(ties)
    \/ stats_dashboard_return

SpecConcurrent == Init /\ [][NextConcurrent]_vars

\* GET /stats/assets, main.py:300-304: the samples are loaded from one
\* snapshot of the committed table and render_all_assets runs on them.
\* rows is the local of _load_samples (main.py:197), stored counts the rows
\* of the table the SELECT ran on.
stats_assets_bundle(ties) ==
    /\ reader.pc = "idle"
    /\ LET rows == SelectRecent(runs, DEFAULT_LIMIT, ties)
           loaded == parse_samples(rows)
       IN  outputs' = Some([stored |-> Len(runs),
                            rows |-> rows,
                            samples |-> loaded,
                            summary |-> build_summary(loaded),
                            by_version |-> _summarize_by_version(loaded),
                            payload |-> render_all_assets(loaded)])
    /\ UNCHANGED <<now, runs, workers, reader, vpayload, vresult, prows, samples>>

\* Admissible bodies for the asset requests: the two of GoodBodies and a run
\* whose appVersion is the word "unknown" itself.
VersionBodies == GoodBodies \cup {With(BaseBody, "appVersion", UNKNOWN)}

\* Admissible requests arrive one after another, next to asset requests.
NextAssets ==
    \/ \E body \in VersionBodies : ingest_receive("w1", body)
    \/ ingest_insert("w1")
    \/ ingest_commit("w1")
    \/ Tick
    \/ \E ties \in {"rowid", "reverse"} : stats_assets_bundle(ties)

SpecAssets == Init /\ [][NextAssets]_vars

(***************************************************************************)
(* The validator alone: a request body is drawn, RunStats is applied.      *)
(***************************************************************************)
OptInts(values) == {None} \cup {Some(v) : v \in values}

ValidatorBodies ==
    {[x \in DOMAIN BaseBody \cup (IF extra THEN {"debug"} ELSE {})
           \cup {"batch", "batchMin", "batchMax", "inflight", "inflightMin", "inflightMax"} |->
        CASE x = "schemaVersion" -> sv
          [] x = "deviceId" -> dev
          [] x = "debug" -> TRUE
          [] x = "batch" -> b
          [] x = "batchMin" -> bmin
          [] x = "batchMax" -> bmax
          [] x = "inflight" -> i
          [] x = "inflightMin" -> imin
          [] x = "inflightMax" -> imax
          [] OTHER -> BaseBody[x]] :
        sv \in {0, 1}, dev \in {Rep("a", 64), Rep("g", 64)}, extra \in BOOLEAN,
        b \in OptInts({1, 2, 3}), bmin \in OptInts({0, 1, 2, 3, BATCH_MAX + 1}),
        bmax \in OptInts({1, 2, BATCH_MAX + 1}),
        i \in OptInts({1}), imin \in OptInts({1, 2}), imax \in OptInts({1})}

InitValidator ==
    /\ vpayload \in {Some(body) : body \in ValidatorBodies}
    /\ vresult = None
    /\ now = 0
    /\ runs = << >>
    /\ workers = [w \in Workers |-> Idle]
    /\ reader = ReaderIdle
    /\ prows = << >>
    /\ samples = << >>
    /\ outputs = None

validate ==
    /\ vresult = None
    /\ vresult' = Some(RunStats(vpayload[1]))
    /\ UNCHANGED <<now, runs, workers, reader, vpayload, prows, samples, outputs>>

SpecValidator == InitValidator /\ [][validate]_vars

(***************************************************************************)
(* parse_samples alone: the rows a SELECT returned are drawn in any order. *)
(***************************************************************************)
\* The longest row list drawn.
MaxRows == 4

RowKinds ==
    {[received_at |-> isoformat(t), app_version |-> v, total_rate |-> 100,
      total_count |-> 1, elapsed_sec |-> 10] : t \in 0..2, v \in {<< >>, V1}}

InitParser ==
    /\ prows \in UNION {[1..n -> RowKinds] : n \in 0..MaxRows}
    /\ samples = << >>
    /\ outputs = None
    /\ now = 0
    /\ runs = << >>
    /\ workers = [w \in Workers |-> Idle]
    /\ reader = ReaderIdle
    /\ vpayload = None
    /\ vresult = None

parse ==
    /\ outputs = None
    /\ samples' = parse_samples(prows)
    /\ outputs' = Some("parsed")
    /\ UNCHANGED <<now, runs, workers, reader, vpayload, vresult, prows>>

SpecParser == InitParser /\ [][parse]_vars

(***************************************************************************)
(* The aggregation functions alone: a time-ordered sample sequence is      *)
(* drawn, the functions are applied to it.                                 *)
(***************************************************************************)
\* The longest sample sequence drawn: two past the window.
MaxSamples == RECENT_WINDOW + 2

SampleKinds == {[app_version |-> v, total_rate |-> r] : v \in {<< >>, V1, V2, V3}, r \in {100, 9000}}

\* Receipt instants in time order: every second sample shares its instant
\* with the one before it.
Stamp(i) == (i + 1) \div 2

InitAggregator ==
    /\ \E n \in 0..MaxSamples : \E kinds \in [1..n -> SampleKinds] :
          samples = [i \in 1..n |->
                        [received_at |-> Stamp(i),
                         app_version |-> kinds[i].app_version,
                         total_rate |-> kinds[i].total_rate,
                         total_count |-> 1,
                         elapsed_sec |-> 10]]
    /\ outputs = None
    /\ prows = << >>
    /\ now = 0
    /\ runs = << >>
    /\ workers = [w \in Workers |-> Idle]
    /\ reader = ReaderIdle
    /\ vpayload = None
    /\ vresult = None

aggregate ==
    /\ outputs = None
    /\ outputs' = Some([summary |-> build_summary(samples),
                        by_version |-> _summarize_by_version(samples),
                        boundaries |-> _app_version_boundaries(samples),
                        assets |-> render_all_assets(samples)])
    /\ UNCHANGED <<now, runs, workers, reader, vpayload, vresult, prows, samples>>

SpecAggregator == InitAggregator /\ [][aggregate]_vars

(***************************************************************************)
(* Claims                                                                  *)
(***************************************************************************)
\* A body passes the closed-schema check, every per-field check and every
\* cross-field invariant.
Admissible(body) ==
    /\ DOMAIN body \subseteq SchemaFields
    /\ FieldErrors(body) = {}
    /\ _validate_ranges(Instance(body)) = "ok"

\* C1: the runs table changes only on admission.  A request whose body fails
\* a check is answered without the table changing and never reaches the
\* INSERT; a request whose body passes all checks is the only thing that
\* changes the table, and it appends exactly one row, the row of its
\* validated payload.
C1_StoreChangesOnlyOnAdmission ==
    [][/\ \A w \in Workers :
            workers[w].pc = "idle" /\ workers'[w].pc # "idle" =>
                /\ runs' = runs
                /\ workers'[w].pc =
                      IF Admissible(workers'[w].body[1]) THEN "stamped" ELSE "rejected"
       /\ \A w \in Workers :
            workers[w].pc = "rejected" =>
                runs' = runs /\ workers'[w].pc \in {"rejected", "idle"}
       /\ \A w \in Workers :
            workers[w].pc = "inserted" /\ workers'[w].pc = "idle" =>
                Len(runs') = Len(runs) + 1
       /\ runs' # runs =>
            \E w \in Workers :
                /\ workers[w].pc = "inserted"
                /\ workers'[w].pc = "idle"
                /\ Admissible(workers[w].body[1])
                /\ Len(runs') = Len(runs) + 1
                /\ SubSeq(runs', 1, Len(runs)) = runs
                /\ runs'[Len(runs')].payload_json = Instance(workers[w].body[1])
                /\ runs'[Len(runs')].received_at = workers[w].received_at[1]
                /\ runs'[Len(runs')].app_version = workers[w].body[1].appVersion
                /\ runs'[Len(runs')].total_rate = workers[w].body[1].totalRate
      ]_vars

\* C1 witness: after one admission a rejected request is being answered.
C1_Witness ==
    /\ Len(runs) = 1
    /\ workers["w1"].pc = "rejected"
    /\ ~Admissible(workers["w1"].body[1])

BatchOrderViolated(body) ==
    /\ "batchMin" \in DOMAIN body /\ body.batchMin # None
    /\ "batchMax" \in DOMAIN body /\ body.batchMax # None
    /\ body.batchMin[1] > body.batchMax[1]

BatchOrderRule == {Err("", "batchMin must be <= batchMax")}

\* C2 as claimed: every body with batchMin > batchMax is rejected with the
\* batch-order rule, whatever its other fields.
C2_BatchOrderRuleAlways ==
    vresult # None /\ BatchOrderViolated(vpayload[1]) =>
        ~vresult[1].ok /\ vresult[1].errors = BatchOrderRule

\* C2 amended: every body with batchMin > batchMax is rejected; the rejection
\* is the batch-order rule when the closed-schema check and every per-field
\* check pass, whatever the other cross-field rules, and it is the field
\* errors alone, the batch-order rule not among them, when one of them fails.
C2_BatchOrderRuleAfterFields ==
    vresult # None /\ BatchOrderViolated(vpayload[1]) =>
        /\ ~vresult[1].ok
        /\ vresult[1].value = None
        /\ IF DOMAIN vpayload[1] \subseteq SchemaFields /\ FieldErrors(vpayload[1]) = {}
           THEN vresult[1].errors = BatchOrderRule
           ELSE /\ vresult[1].errors = FieldErrors(vpayload[1])
                /\ vresult[1].errors \cap BatchOrderRule = {}

\* C2 witness: the fields pass, batchMin > batchMax, and the inflight bounds
\* are out of order as well.
C2_Witness ==
    /\ vresult # None
    /\ BatchOrderViolated(vpayload[1])
    /\ FieldErrors(vpayload[1]) = {}
    /\ vpayload[1].inflightMin = Some(2)
    /\ vpayload[1].inflightMax = Some(1)
    /\ vresult[1].errors = BatchOrderRule

\* C4 as claimed: the summary of a dashboard request reports as total_runs
\* the number of runs admitted to the table when its SELECT ran.
C4_TotalRunsIsAllAdmitted ==
    reader.pc = "done" => reader.summary[1].total_runs = reader.seen

Count(seq, x) == Cardinality({i \in 1..Len(seq) : seq[i] = x})

\* The sample a stored row stands for.
SampleOf(row) ==
    [received_at |-> row.received_at.iso,
     app_version |-> IF row.app_version = << >> THEN UNKNOWN ELSE row.app_version,
     total_rate |-> row.total_rate,
     total_count |-> row.total_count,
     elapsed_sec |-> row.elapsed_sec]

SamplesOf(rows) == [i \in 1..Len(rows) |-> SampleOf(rows[i])]

Ascending(ss) ==
    \A i, j \in 1..Len(ss) : i < j => ss[i].received_at <= ss[j].received_at

\* C5: when the table held no more rows than the load limit at the SELECT,
\* the samples a dashboard request aggregates are ascending by receipt
\* instant, each of them is one committed row taken whole (no sample mixes
\* rows, none stands for an uncommitted row, no row is counted twice), and
\* every row committed before the request began is among them.
C5_ConsistentOrderedSnapshot ==
    reader.pc = "done" /\ reader.seen <= DEFAULT_LIMIT =>
        /\ Ascending(reader.samples)
        /\ \A i \in 1..Len(reader.samples) :
              Count(reader.samples, reader.samples[i])
                 <= Count(SamplesOf(SubSeq(runs, 1, reader.seen)), reader.samples[i])
        /\ \A k \in 1..reader.begun :
              Count(SamplesOf(SubSeq(runs, 1, reader.begun)), SampleOf(runs[k]))
                 <= Count(reader.samples, SampleOf(runs[k]))

\* C5 witness: a request that began on an empty table loaded two rows that
\* were committed against the order of their receipt instants, while a
\* third ingest was in flight.
C5_Witness ==
    /\ reader.pc = "done"
    /\ reader.begun = 0
    /\ reader.seen = 2
    /\ Len(runs) = 2
    /\ runs[1].received_at.iso > runs[2].received_at.iso
    /\ Len(reader.samples) = 2
    /\ \E w \in Workers : workers[w].pc = "inserted"

\* C6: parse_samples returns the samples of its input rows, each once,
\* ascending by receipt instant, and the samples of one instant in the
\* order their rows had in the input.
C6_StableSortByReceipt ==
    outputs = Some("parsed") =>
        /\ Len(samples) = Len(prows)
        /\ \A i \in 1..Len(prows) :
              Count(samples, SampleOf(prows[i])) = Count(SamplesOf(prows), SampleOf(prows[i]))
        /\ Ascending(samples)
        /\ \A t \in {prows[i].received_at.iso : i \in 1..Len(prows)} :
              SelectSeq(samples, LAMBDA x : x.received_at = t)
                 = SelectSeq(SamplesOf(prows), LAMBDA x : x.received_at = t)

\* C6 witness: the rows came latest first, and two different rows of one
\* instant came out in their input order.
C6_Witness ==
    /\ outputs = Some("parsed")
    /\ Len(prows) = 3
    /\ prows[1].received_at.iso > prows[2].received_at.iso
    /\ prows[2].received_at = prows[3].received_at
    /\ prows[2].app_version # prows[3].app_version
    /\ samples[1] = SampleOf(prows[2])
    /\ samples[2] = SampleOf(prows[3])
\* The j-th smallest total_rate among the samples at the indexes idx.
KthRate(idx, j) ==
    CHOOSE v \in {samples[i].total_rate : i \in idx} :
        /\ Cardinality({i \in idx : samples[i].total_rate < v}) < j
        /\ Cardinality({i \in idx : samples[i].total_rate <= v}) >= j

\* The median of the total_rate values at the indexes idx: the middle value,
\* the mean of the two middle values when their number is even.
MedianRate(idx) ==
    LET k == Cardinality(idx)
    IN  IF k % 2 = 1 THEN KthRate(idx, (k + 1) \div 2)
        ELSE (KthRate(idx, k \div 2) + KthRate(idx, k \div 2 + 1)) \div 2

\* The indexes of the last min(RECENT_WINDOW, N) samples.
WindowIndexes ==
    {i \in 1..Len(samples) : i > Len(samples) - RECENT_WINDOW}

\* C3: for a non-empty sample sequence, estimated_rate is the median of the
\* total_rate values of the last min(window, N) samples, and sample_count is
\* the size of that window.
C3_EstimatedRateIsWindowMedian ==
    outputs # None /\ samples # << >> =>
        /\ outputs[1].summary.estimated_rate = MedianRate(WindowIndexes)
        /\ outputs[1].summary.sample_count = Cardinality(WindowIndexes)

\* C3 witness: a sequence one longer than the window, where the median of
\* all the samples (a mean of two middle values) is not the window's median.
C3_Witness ==
    /\ outputs # None
    /\ Len(samples) = RECENT_WINDOW + 1
    /\ outputs[1].summary.estimated_rate = MedianRate(WindowIndexes)
    /\ MedianRate(1..Len(samples)) # MedianRate(WindowIndexes)
    /\ MedianRate(1..Len(samples)) \notin {samples[i].total_rate : i \in 1..Len(samples)}

NonEmptyVersions == {samples[i].app_version : i \in 1..Len(samples)} \ {<< >>}

FirstIndex(v) ==
    CHOOSE i \in 1..Len(samples) :
        samples[i].app_version = v /\ \A j \in 1..(i - 1) : samples[j].app_version # v

\* C7: _summarize_by_version returns one entry per distinct non-empty
\* version and none for the empty version; an entry's median is the median
\* of all total_rate values of its version; the entries are in the order of
\* their versions' first occurrences.
C7_ByVersionFirstSeenOrder ==
    outputs # None =>
        LET bv == outputs[1].by_version
        IN  /\ Len(bv) = Cardinality(NonEmptyVersions)
            /\ {bv[i].version : i \in 1..Len(bv)} = NonEmptyVersions
            /\ \A i \in 1..Len(bv) :
                  bv[i].median =
                     MedianRate({k \in 1..Len(samples) : samples[k].app_version = bv[i].version})
            /\ \A i, j \in 1..Len(bv) :
                  i < j => FirstIndex(bv[i].version) < FirstIndex(bv[j].version)

\* C7 witness: versions [v2, v1, v2, v3] followed by an empty version give
\* the order [v2, v1, v3].
C7_Witness ==
    /\ outputs # None
    /\ Len(samples) = 5
    /\ [i \in 1..5 |-> samples[i].app_version] = <<V2, V1, V2, V3, << >> >>
    /\ samples[1].total_rate # samples[3].total_rate
    /\ [i \in 1..Len(outputs[1].by_version) |-> outputs[1].by_version[i].version] = <<V2, V1, V3>>

BoundaryIndexes ==
    {i \in 1..Len(samples) : i = 1 \/ samples[i].app_version # samples[i - 1].app_version}

\* C8: _app_version_boundaries emits, in ascending order, one boundary for
\* each sample that is the first or whose version differs from that of the
\* sample before it, and no other.
C8_BoundaryAtEveryChange ==
    outputs # None =>
        LET b == outputs[1].boundaries
        IN  /\ Len(b) = Cardinality(BoundaryIndexes)
            /\ \A k \in 1..Len(b) :
                  LET i == CHOOSE x \in BoundaryIndexes :
                              Cardinality({y \in BoundaryIndexes : y < x}) = k - 1
                  IN  b[k] = [at |-> samples[i].received_at, version |-> samples[i].app_version]

\* C8 witness: versions [A, A, B, B, A] give boundaries at the 1st, 3rd and
\* 5th samples.
C8_Witness ==
    /\ outputs # None
    /\ [i \in 1..Len(samples) |-> samples[i].app_version] = <<V1, V1, V2, V2, V1>>
    /\ outputs[1].boundaries =
          <<[at |-> samples[1].received_at, version |-> V1],
            [at |-> samples[3].received_at, version |-> V2],
            [at |-> samples[5].received_at, version |-> V1]>>

\* C9: unique_versions is the number of distinct non-empty versions of all
\* the samples, those older than the window included.
C9_UniqueVersionsOverAllSamples ==
    outputs # None =>
        outputs[1].summary.unique_versions =
            Cardinality({v \in {<< >>, V1, V2, V3, UNKNOWN} :
                            v # << >> /\ \E i \in 1..Len(samples) : samples[i].app_version = v})

\* C9 witness: a version seen only before the window is counted.
C9_Witness ==
    /\ outputs # None
    /\ Len(samples) > RECENT_WINDOW
    /\ samples[1].app_version # << >>
    /\ \A i \in WindowIndexes : samples[i].app_version \notin {<< >>, samples[1].app_version}
    /\ outputs[1].summary.unique_versions = 2

IsPlaceholder(asset, title, message) ==
    asset = [kind |-> "placeholder", title |-> title, message |-> message]

\* C10: for the empty sequence build_summary returns the zero summary with
\* no last_received_at, _summarize_by_version returns the empty list and the
\* three renderers return their "No data yet" placeholders; for a non-empty
\* sequence of samples that all have an empty version
\* render_performance_by_version returns the "No version data yet"
\* placeholder, and the two placeholders differ.
C10_EmptyInputPlaceholders ==
    outputs # None =>
        /\ samples = << >> =>
              /\ outputs[1].summary =
                    [estimated_rate |-> 0, sample_count |-> 0, total_runs |-> 0,
                     unique_versions |-> 0, last_received_at |-> None]
              /\ outputs[1].by_version = << >>
              /\ IsPlaceholder(outputs[1].assets.total_rate,
                               "Estimated total rate", "No data yet")
              /\ IsPlaceholder(outputs[1].assets.perf_over_time,
                               "Performance over time", "No data yet")
              /\ IsPlaceholder(outputs[1].assets.perf_by_version,
                               "Performance by app version", "No data yet")
        /\ (samples # << >> /\ \A i \in 1..Len(samples) : samples[i].app_version = << >>) =>
              /\ IsPlaceholder(outputs[1].assets.perf_by_version,
                               "Performance by app version", "No version data yet")
              /\ ~IsPlaceholder(outputs[1].assets.perf_by_version,
                                "Performance by app version", "No data yet")
              /\ outputs[1].assets.total_rate.kind = "card"
              /\ outputs[1].assets.perf_over_time.kind = "chart"

\* C10 witness: a non-empty sequence without any version got the "No
\* version data yet" placeholder.
C10_Witness ==
    /\ outputs # None
    /\ Len(samples) = 2
    /\ \A i \in 1..Len(samples) : samples[i].app_version = << >>
    /\ outputs[1].assets.perf_by_version.message = "No version data yet"

\* The versions of the fetched rows as parse_samples hands them on: the
\* empty one replaced by "unknown".
ShownVersions(rows) ==
    {IF rows[i].app_version = << >> THEN UNKNOWN ELSE rows[i].app_version :
        i \in 1..Len(rows)}

\* C11: every sample parse_samples builds from the rows fetched from the
\* store has a non-empty app_version, and a row stored with the empty
\* version becomes a sample with the version "unknown"; so the by-version
\* summary has one bucket per version of the fetched rows, with an
\* "unknown" bucket whenever a fetched row has the empty version,
\* unique_versions counts those buckets, and for a non-empty store
\* render_performance_by_version never returns the "No version data yet"
\* placeholder.
C11_StoredEmptyVersionIsUnknown ==
    outputs # None =>
        LET o == outputs[1]
            empties == {i \in 1..Len(o.rows) : o.rows[i].app_version = << >>}
            buckets == {o.by_version[i].version : i \in 1..Len(o.by_version)}
        IN  /\ Len(o.samples) = Len(o.rows)
            /\ \A i \in 1..Len(o.samples) : o.samples[i].app_version # << >>
            /\ Cardinality({i \in 1..Len(o.samples) : o.samples[i].app_version = UNKNOWN})
                  = Cardinality({i \in 1..Len(o.rows) :
                                   o.rows[i].app_version \in {<< >>, UNKNOWN}})
            /\ buckets = ShownVersions(o.rows)
            /\ empties # {} => UNKNOWN \in buckets
            /\ o.summary.unique_versions = Cardinality(ShownVersions(o.rows))
            /\ o.stored > 0 =>
                  /\ o.payload.perf_by_version.kind = "chart"
                  /\ ~IsPlaceholder(o.payload.perf_by_version,
                                    "Performance by app version", "No version data yet")

\* C11 witness: every fetched row of a non-empty store has the empty
\* version, and the chart has the one bar of the "unknown" bucket.
C11_Witness ==
    /\ outputs # None
    /\ outputs[1].stored = 2
    /\ Len(outputs[1].rows) = 2
    /\ \A i \in 1..Len(outputs[1].rows) : outputs[1].rows[i].app_version = << >>
    /\ outputs[1].summary.unique_versions = 1
    /\ outputs[1].payload.perf_by_version.kind = "chart"
    /\ outputs[1].payload.perf_by_version.ticks = <<UNKNOWN>>

====
